---- MODULE Spec2Model ----
(***************************************************************************)
(* Model of schnorr_keypair.go (package secp256k1): the SchnorrKeyPair     *)
(* wrapper around libsecp256k1's keypair / schnorrsig modules.             *)
(*                                                                         *)
(* Scaling.  A 32-byte buffer is modelled as SegLen digits in base         *)
(* ByteBase, most significant first, and the curve's group order as the    *)
(* small prime GroupOrder < ByteBase^SegLen, so that the values 0,         *)
(* 1..GroupOrder-1, GroupOrder and > GroupOrder all occur.  The 96-byte    *)
(* C.secp256k1_keypair is three such segments.                             *)
(*                                                                         *)
(* The heap holds the SchnorrKeyPair objects of the calling program.  It   *)
(* starts with one zero-valued struct, SchnorrKeyPair{}; the constructors  *)
(* append the object they return.  A call is one step, except              *)
(* GeneratePrivateKey, whose loop takes a step for each rand.Read and each *)
(* DeserializePrivateKey.  Arguments and random bytes come from the sets   *)
(* Secrets, Tweaks, Slices, Hashes and Sources.                            *)
(***************************************************************************)
EXTENDS Integers, Sequences, FiniteSets, TLC

SegLen == 2
ByteBase == 3
MaxKeys == 2
MaxDraws == 2
GroupOrder == 5

SerializedPrivateKeySize == SegLen

VARIABLES heap, ret, pc, rawKey, genEngine, read, draws

vars == <<heap, ret, pc, rawKey, genEngine, read, draws>>

(***************************************************************************)
(* Byte buffers                                                            *)
(***************************************************************************)
Byte == 0 .. (ByteBase - 1)

RECURSIVE BytesToInt(_)
BytesToInt(s) ==
    IF Len(s) = 0 THEN 0
    ELSE BytesToInt(SubSeq(s, 1, Len(s) - 1)) * ByteBase + s[Len(s)]

RECURSIVE IntToBytes(_, _)
IntToBytes(v, len) ==
    IF len = 0 THEN <<>>
    ELSE Append(IntToBytes(v \div ByteBase, len - 1), v % ByteBase)

Zeros(len) == [i \in 1 .. len |-> 0]

Buffers(len) == [1 .. len -> Byte]

Seg(data, i) == SubSeq(data, (i - 1) * SegLen + 1, i * SegLen)

ZeroKeypair == Zeros(3 * SegLen)

(***************************************************************************)
(* Curve Engine: libsecp256k1, reached through cgo.  A toy group of prime  *)
(* order GroupOrder: the point of the scalar d has x = d*d mod GroupOrder  *)
(* (so d and GroupOrder-d share x) and y = d (so they differ in parity).   *)
(***************************************************************************)
PubX(d) == (d * d) % GroupOrder

PubY(d) == d

KeypairSave(d) ==
    IntToBytes(d, SegLen) \o IntToBytes(PubX(d), SegLen) \o IntToBytes(PubY(d), SegLen)

KeypairLoads(kp) ==
    LET d == BytesToInt(Seg(kp, 1))
    IN  /\ 0 < d
        /\ d < GroupOrder
        /\ kp = KeypairSave(d)

secp256k1_keypair_create(seckey) ==
    LET d == BytesToInt(seckey)
    IN  IF 0 < d /\ d < GroupOrder
        THEN [ret |-> 1, keypair |-> KeypairSave(d)]
        ELSE [ret |-> 0, keypair |-> ZeroKeypair]

\* faulty variant: a failed tweak leaves the keypair invalidated (all zero)
secp256k1_keypair_xonly_tweak_add_Invalidating(kp, tweak) ==
    LET d0 == BytesToInt(Seg(kp, 1))
        d  == IF BytesToInt(Seg(kp, 3)) % 2 = 1 THEN GroupOrder - d0 ELSE d0
        t  == BytesToInt(tweak)
        d2 == (d + t) % GroupOrder
    IN  IF KeypairLoads(kp) /\ t < GroupOrder /\ d2 # 0
        THEN [ret |-> 1, keypair |-> KeypairSave(d2)]
        ELSE [ret |-> 0, keypair |-> ZeroKeypair]

secp256k1_keypair_xonly_tweak_add(kp, tweak) ==
    LET d0 == BytesToInt(Seg(kp, 1))
        d  == IF BytesToInt(Seg(kp, 3)) % 2 = 1 THEN GroupOrder - d0 ELSE d0
        t  == BytesToInt(tweak)
        d2 == (d + t) % GroupOrder
    IN  IF KeypairLoads(kp) /\ t < GroupOrder /\ d2 # 0
        THEN [ret |-> 1, keypair |-> KeypairSave(d2)]
        ELSE [ret |-> 0, keypair |-> kp]

secp256k1_keypair_xonly_pub(kp) ==
    IF KeypairLoads(kp)
    THEN [ret |-> 1, pubkey |-> Seg(kp, 2), parity |-> BytesToInt(Seg(kp, 3)) % 2]
    ELSE [ret |-> 0, pubkey |-> Zeros(SegLen), parity |-> 42]

secp256k1_schnorrsig_sign(hash, kp, aux) ==
    LET d0 == BytesToInt(Seg(kp, 1))
        d  == IF BytesToInt(Seg(kp, 3)) % 2 = 1 THEN GroupOrder - d0 ELSE d0
        k  == 1 + ((d + BytesToInt(aux) + 2 * BytesToInt(hash)) % (GroupOrder - 1))
        e  == (PubX(k) + PubX(d) + BytesToInt(hash)) % GroupOrder
        s  == (k + e * d) % GroupOrder
    IN  IF KeypairLoads(kp)
        THEN [ret |-> 1, sig |-> IntToBytes(PubX(k), SegLen) \o IntToBytes(s, SegLen)]
        ELSE [ret |-> 0, sig |-> Zeros(2 * SegLen)]

(***************************************************************************)
(* Randomness Source: crypto/rand.Read(b).  src is what the source does on *)
(* this call: how many bytes it writes, which bytes, and its error.  id is *)
(* the number of the draw, a tag that follows the buffer it filled.        *)
(***************************************************************************)
Nil == <<>>

NoAux == [bytes |-> Nil, id |-> 0]

Ones(len) == [i \in 1 .. len |-> 1]

Filled(len) == [i \in 1 .. len |-> ByteBase - 1]

\* a complete read brings the bytes of 0, of 1 or of GroupOrder; a read that is
\* short (no byte, or all but one) or reports an error brings 0xFF bytes
Sources ==
    {[n |-> SegLen, err |-> "nil", bytes |-> IntToBytes(v, SegLen)] : v \in {0, 1, GroupOrder}}
    \cup {src \in [n : {0, SegLen - 1, SegLen}, err : {"nil", "errRand"},
                   bytes : {Filled(SegLen)}] :
             src.n # SegLen \/ src.err # "nil"}

rand_Read(b, src, id) ==
    [n   |-> src.n,
     err |-> src.err,
     buf |-> [i \in 1 .. Len(b) |-> IF i <= src.n THEN src.bytes[i] ELSE b[i]],
     id  |-> id]

EngineCall(fn, aux) == [fn |-> fn, aux |-> aux]

(***************************************************************************)
(* schnorr_keypair.go                                                      *)
(***************************************************************************)
isZeroedBytes(slice) == \A i \in 1 .. Len(slice) : slice[i] = 0

\* faulty variant: && in place of ||
isZeroedAll(keypair) ==
    /\ isZeroedBytes(SubSeq(keypair, 1, SegLen))
    /\ isZeroedBytes(SubSeq(keypair, SegLen + 1, 2 * SegLen))
    /\ isZeroedBytes(SubSeq(keypair, 2 * SegLen + 1, Len(keypair)))

isZeroed(keypair) ==
    \/ isZeroedBytes(SubSeq(keypair, 1, SegLen))
    \/ isZeroedBytes(SubSeq(keypair, SegLen + 1, 2 * SegLen))
    \/ isZeroedBytes(SubSeq(keypair, 2 * SegLen + 1, Len(keypair)))

copy(dst, src) == [i \in 1 .. Len(dst) |-> IF i <= Len(src) THEN src[i] ELSE dst[i]]

\* faulty variant: the engine's return value is not tested
DeserializePrivateKeyUnchecked(data) ==
    LET r == secp256k1_keypair_create(data)
        engine == <<EngineCall("keypair_create", NoAux)>>
    IN  [key |-> r.keypair, err |-> "nil", engine |-> engine]

DeserializePrivateKey(data) ==
    LET r == secp256k1_keypair_create(data)
        engine == <<EngineCall("keypair_create", NoAux)>>
    IN  IF r.ret # 1
        THEN [key |-> Nil, err |-> "errInvalidKey", engine |-> engine]
        ELSE [key |-> r.keypair, err |-> "nil", engine |-> engine]

\* faulty variant: only a slice that is too short is rejected
DeserializePrivateKeyFromSliceShortOnly(data) ==
    IF Len(data) < SerializedPrivateKeySize
    THEN [key |-> Nil, err |-> "errLength", engine |-> <<>>]
    ELSE DeserializePrivateKey(copy(Zeros(SerializedPrivateKeySize), data))

DeserializePrivateKeyFromSlice(data) ==
    IF Len(data) # SerializedPrivateKeySize
    THEN [key |-> Nil, err |-> "errLength", engine |-> <<>>]
    ELSE DeserializePrivateKey(copy(Zeros(SerializedPrivateKeySize), data))

\* faulty variant: the loop stops one byte early
SerializePrivateKeyShort(keypair) ==
    [out |-> [i \in 1 .. SegLen |-> IF i < SegLen THEN keypair[i] ELSE 0], keypair |-> keypair]

SerializePrivateKey(keypair) ==
    [out |-> [i \in 1 .. SegLen |-> keypair[i]], keypair |-> keypair]

\* faulty variant: no isZeroed test before the engine call
AddUngated(keypair, tweak) ==
    LET r == secp256k1_keypair_xonly_tweak_add(keypair, tweak)
        engine == <<EngineCall("keypair_xonly_tweak_add", NoAux)>>
    IN  IF r.ret # 1
        THEN [err |-> "errTweak", keypair |-> r.keypair, engine |-> engine]
        ELSE [err |-> "nil", keypair |-> r.keypair, engine |-> engine]

Add(keypair, tweak) ==
    IF isZeroed(keypair)
    THEN [err |-> "errZeroedKeyPair", keypair |-> keypair, engine |-> <<>>]
    ELSE LET r == secp256k1_keypair_xonly_tweak_add(keypair, tweak)
             engine == <<EngineCall("keypair_xonly_tweak_add", NoAux)>>
         IN  IF r.ret # 1
             THEN [err |-> "errTweak", keypair |-> r.keypair, engine |-> engine]
             ELSE [err |-> "nil", keypair |-> r.keypair, engine |-> engine]

parityBitToBool(parity) ==
    CASE parity = 0 -> FALSE
      [] parity = 1 -> TRUE
      [] OTHER -> "panic"

\* faulty variant: a key with an odd point is replaced in place by its negation
schnorrPublicKeyInternalNormalizing(keypair) ==
    IF isZeroed(keypair)
    THEN [pubkey |-> Nil, wasOdd |-> FALSE, err |-> "errZeroedKeyPair",
          keypair |-> keypair, engine |-> <<>>]
    ELSE LET r == secp256k1_keypair_xonly_pub(keypair)
             engine == <<EngineCall("keypair_xonly_pub", NoAux)>>
         IN  IF r.ret # 1
             THEN [pubkey |-> Nil, wasOdd |-> FALSE, err |-> "errInvalidData",
                   keypair |-> keypair, engine |-> engine]
             ELSE [pubkey |-> r.pubkey, wasOdd |-> parityBitToBool(r.parity), err |-> "nil",
                   keypair |-> IF r.parity = 1
                               THEN KeypairSave(GroupOrder - BytesToInt(Seg(keypair, 1)))
                               ELSE keypair,
                   engine |-> engine]

schnorrPublicKeyInternal(keypair) ==
    IF isZeroed(keypair)
    THEN [pubkey |-> Nil, wasOdd |-> FALSE, err |-> "errZeroedKeyPair",
          keypair |-> keypair, engine |-> <<>>]
    ELSE LET r == secp256k1_keypair_xonly_pub(keypair)
             engine == <<EngineCall("keypair_xonly_pub", NoAux)>>
         IN  IF r.ret # 1
             THEN [pubkey |-> Nil, wasOdd |-> FALSE, err |-> "errInvalidData",
                   keypair |-> keypair, engine |-> engine]
             ELSE [pubkey |-> r.pubkey, wasOdd |-> parityBitToBool(r.parity), err |-> "nil",
                   keypair |-> keypair, engine |-> engine]

SchnorrPublicKey(keypair) ==
    LET r == schnorrPublicKeyInternal(keypair)
    IN  [pubkey |-> r.pubkey, wasOdd |-> r.wasOdd, err |-> r.err, keypair |-> r.keypair,
         engine |-> r.engine]

schnorrSignInternal(keypair, hash, auxiliaryRand) ==
    IF isZeroed(keypair)
    THEN [sig |-> Nil, err |-> "errZeroedKeyPair", keypair |-> keypair, engine |-> <<>>]
    ELSE LET r == secp256k1_schnorrsig_sign(hash, keypair, auxiliaryRand.bytes)
             engine == <<EngineCall("schnorrsig_sign", auxiliaryRand)>>
         IN  IF r.ret # 1
             THEN [sig |-> Nil, err |-> "errSign", keypair |-> keypair, engine |-> engine]
             ELSE [sig |-> r.sig, err |-> "nil", keypair |-> keypair, engine |-> engine]

\* faulty variant: the engine gets the buffer as declared, not the one rand.Read filled
SchnorrSignStaleAux(keypair, hash, src, id) ==
    LET rd == rand_Read(Zeros(SegLen), src, id)
    IN  IF rd.err # "nil" \/ rd.n # SegLen
        THEN [sig |-> Nil, err |-> rd.err, keypair |-> keypair, engine |-> <<>>, reads |-> <<rd>>]
        ELSE LET r == schnorrSignInternal(keypair, hash, [bytes |-> Zeros(SegLen), id |-> 0])
             IN  [sig |-> r.sig, err |-> r.err, keypair |-> r.keypair, engine |-> r.engine,
                  reads |-> <<rd>>]

\* src and id: what the Randomness Source does on the one rand.Read of this call
SchnorrSign(keypair, hash, src, id) ==
    LET rd == rand_Read(Zeros(SegLen), src, id)
    IN  IF rd.err # "nil" \/ rd.n # SegLen
        THEN [sig |-> Nil, err |-> rd.err, keypair |-> keypair, engine |-> <<>>, reads |-> <<rd>>]
        ELSE LET r == schnorrSignInternal(keypair, hash, [bytes |-> rd.buf, id |-> rd.id])
             IN  [sig |-> r.sig, err |-> r.err, keypair |-> r.keypair, engine |-> r.engine,
                  reads |-> <<rd>>]

\* faulty variant: a short read is not tested, the loop goes on to DeserializePrivateKey
GeneratePrivateKeyReadRetry(raw, src, id) ==
    LET rd == rand_Read(raw, src, id)
    IN  IF rd.err # "nil"
        THEN [done |-> TRUE, key |-> Nil, err |-> rd.err, rawKey |-> rd.buf, reads |-> <<rd>>]
        ELSE [done |-> FALSE, key |-> Nil, err |-> "nil", rawKey |-> rd.buf, reads |-> <<rd>>]

\* GeneratePrivateKey, lines 67-70: one rand.Read into rawKey and its test
GeneratePrivateKeyRead(raw, src, id) ==
    LET rd == rand_Read(raw, src, id)
    IN  IF rd.err # "nil" \/ rd.n # Len(raw)
        THEN [done |-> TRUE, key |-> Nil, err |-> rd.err, rawKey |-> rd.buf, reads |-> <<rd>>]
        ELSE [done |-> FALSE, key |-> Nil, err |-> "nil", rawKey |-> rd.buf, reads |-> <<rd>>]

\* GeneratePrivateKey, lines 71-74: DeserializePrivateKey(&rawKey) and its test
GeneratePrivateKeyTry(raw) ==
    LET r == DeserializePrivateKey(raw)
    IN  IF r.err = "nil"
        THEN [done |-> TRUE, key |-> r.key, err |-> "nil", engine |-> r.engine]
        ELSE [done |-> FALSE, key |-> Nil, err |-> r.err, engine |-> r.engine]

(***************************************************************************)
(* State.                                                                  *)
(*   heap    the SchnorrKeyPair objects (their keypair.data), by index     *)
(*   ret     the last completed call: operation, receiver, argument, the   *)
(*           receiver's bytes before the call, results, Curve Engine calls *)
(*   pc, rawKey   position and local of a running GeneratePrivateKey       *)
(*   genEngine    the Curve Engine calls it has made so far                *)
(*   read    the rand.Read of the last call or of the running               *)
(*           GeneratePrivateKey: bytes written, error, buffer, draw number; *)
(*           NoRead when there was none                                    *)
(*   draws   number of rand.Read calls so far                              *)
(***************************************************************************)
Hashes == {Zeros(SegLen), IntToBytes(1, SegLen)}

\* the 32-byte inputs: 0, 1, GroupOrder-1, GroupOrder and the largest value
Secrets == {IntToBytes(v, SegLen) : v \in {0, 1, GroupOrder - 1, GroupOrder}} \cup {Filled(SegLen)}

Tweaks == {IntToBytes(v, SegLen) : v \in {1, 3, GroupOrder}}

\* the slices: the 32-byte inputs, and one slice of each of the lengths 0, 1,
\* SegLen-1, SegLen+1 and 2*SegLen
Slices == Secrets \cup {Ones(l) : l \in {0, 1, SegLen - 1, SegLen + 1, 2 * SegLen}}

NoRet ==
    [op |-> "none", obj |-> 0, arg |-> Nil, before |-> Nil, err |-> "nil", key |-> 0,
     out |-> Nil, odd |-> FALSE, zeroed |-> FALSE, engine |-> <<>>]

NoRead == [n |-> 0, err |-> "nil", buf |-> Nil, id |-> 0]

Init ==
    /\ heap = <<ZeroKeypair>>
    /\ ret = NoRet
    /\ pc = "idle"
    /\ rawKey = Zeros(SegLen)
    /\ genEngine = <<>>
    /\ read = NoRead
    /\ draws = 0

\* a call that draws no randomness: no GeneratePrivateKey is running, and the
\* buffers of the earlier calls are gone
NoDraw ==
    /\ rawKey' = Zeros(SegLen)
    /\ read' = NoRead
    /\ UNCHANGED <<pc, genEngine, draws>>

\* the caller keeps the object a constructor returned
Returned(r) == IF r.key = Nil THEN heap ELSE Append(heap, r.key)

ReturnedKey(r) == IF r.key = Nil THEN 0 ELSE Len(heap) + 1

CallDeserializePrivateKey ==
    /\ pc = "idle"
    /\ Len(heap) < MaxKeys
    /\ \E data \in Secrets :
          LET r == DeserializePrivateKey(data)
          IN  /\ heap' = Returned(r)
              /\ ret' = [NoRet EXCEPT !.op = "DeserializePrivateKey", !.arg = data,
                                      !.err = r.err, !.key = ReturnedKey(r),
                                      !.engine = r.engine]
    /\ NoDraw

CallDeserializePrivateKeyFromSlice ==
    /\ pc = "idle"
    /\ Len(heap) < MaxKeys
    /\ \E data \in Slices :
          LET r == DeserializePrivateKeyFromSlice(data)
          IN  /\ heap' = Returned(r)
              /\ ret' = [NoRet EXCEPT !.op = "DeserializePrivateKeyFromSlice", !.arg = data,
                                      !.err = r.err, !.key = ReturnedKey(r),
                                      !.engine = r.engine]
    /\ NoDraw

GenerateStart ==
    /\ pc = "idle"
    /\ Len(heap) < MaxKeys
    /\ draws < MaxDraws
    /\ pc' = "read"
    /\ rawKey' = Zeros(SegLen)
    /\ read' = NoRead
    /\ genEngine' = <<>>
    /\ UNCHANGED <<heap, ret, draws>>

GenerateRead ==
    /\ pc = "read"
    /\ draws < MaxDraws
    /\ \E src \in Sources :
          LET r == GeneratePrivateKeyRead(rawKey, src, draws + 1)
          IN  /\ rawKey' = r.rawKey
              /\ read' = r.reads[Len(r.reads)]
              /\ draws' = draws + Len(r.reads)
              /\ pc' = IF r.done THEN "idle" ELSE "try"
              /\ ret' = IF r.done
                        THEN [NoRet EXCEPT !.op = "GeneratePrivateKey", !.err = r.err,
                                           !.key = ReturnedKey(r), !.engine = genEngine]
                        ELSE ret
              /\ genEngine' = IF r.done THEN <<>> ELSE genEngine
              /\ heap' = IF r.done THEN Returned(r) ELSE heap

GenerateTry ==
    /\ pc = "try"
    /\ LET r == GeneratePrivateKeyTry(rawKey)
       IN  /\ pc' = IF r.done THEN "idle" ELSE "read"
           /\ ret' = IF r.done
                     THEN [NoRet EXCEPT !.op = "GeneratePrivateKey", !.err = r.err,
                                        !.key = ReturnedKey(r),
                                        !.engine = genEngine \o r.engine]
                     ELSE ret
           /\ genEngine' = IF r.done THEN <<>> ELSE genEngine \o r.engine
           /\ heap' = IF r.done THEN Returned(r) ELSE heap
    /\ UNCHANGED <<rawKey, read, draws>>

CallSerializePrivateKey ==
    /\ pc = "idle"
    /\ \E i \in 1 .. Len(heap) :
          LET r == SerializePrivateKey(heap[i])
          IN  /\ heap' = [heap EXCEPT ![i] = r.keypair]
              /\ ret' = [NoRet EXCEPT !.op = "SerializePrivateKey", !.obj = i,
                                      !.before = heap[i], !.out = r.out]
    /\ NoDraw

CallAdd ==
    /\ pc = "idle"
    /\ \E i \in 1 .. Len(heap), tweak \in Tweaks :
          LET r == Add(heap[i], tweak)
          IN  /\ heap' = [heap EXCEPT ![i] = r.keypair]
              /\ ret' = [NoRet EXCEPT !.op = "Add", !.obj = i, !.arg = tweak,
                                      !.before = heap[i], !.err = r.err,
                                      !.engine = r.engine]
    /\ NoDraw

CallSchnorrPublicKey ==
    /\ pc = "idle"
    /\ \E i \in 1 .. Len(heap) :
          LET r == SchnorrPublicKey(heap[i])
          IN  /\ heap' = [heap EXCEPT ![i] = r.keypair]
              /\ ret' = [NoRet EXCEPT !.op = "SchnorrPublicKey", !.obj = i,
                                      !.before = heap[i], !.err = r.err,
                                      !.out = r.pubkey, !.odd = r.wasOdd,
                                      !.engine = r.engine]
    /\ NoDraw

CallSchnorrSign ==
    /\ pc = "idle"
    /\ draws < MaxDraws
    /\ \E i \in 1 .. Len(heap), hash \in Hashes, src \in Sources :
          LET r == SchnorrSign(heap[i], hash, src, draws + 1)
          IN  /\ heap' = [heap EXCEPT ![i] = r.keypair]
              /\ ret' = [NoRet EXCEPT !.op = "SchnorrSign", !.obj = i, !.arg = hash,
                                      !.before = heap[i], !.err = r.err,
                                      !.out = r.sig, !.engine = r.engine]
              /\ read' = IF r.reads = <<>> THEN read ELSE r.reads[Len(r.reads)]
              /\ draws' = draws + Len(r.reads)
    /\ rawKey' = Zeros(SegLen)
    /\ UNCHANGED <<pc, genEngine>>

Next ==
    \/ CallDeserializePrivateKey
    \/ CallDeserializePrivateKeyFromSlice
    \/ GenerateStart
    \/ GenerateRead
    \/ GenerateTry
    \/ CallSerializePrivateKey
    \/ CallAdd
    \/ CallSchnorrPublicKey
    \/ CallSchnorrSign

Spec == Init /\ [][Next]_vars

\* the running GeneratePrivateKey call keeps executing
LiveSpec == Spec /\ WF_vars(GenerateRead) /\ WF_vars(GenerateTry)

(***************************************************************************)
(* isZeroed as a function of the 96 bytes: any content of keypair.data     *)
(***************************************************************************)
InitZ ==
    /\ heap \in {<<data>> : data \in Buffers(3 * SegLen)}
    /\ ret = NoRet
    /\ pc = "idle"
    /\ rawKey = Zeros(SegLen)
    /\ genEngine = <<>>
    /\ read = NoRead
    /\ draws = 0

CallIsZeroed ==
    /\ ret.op = "none"
    /\ ret' = [NoRet EXCEPT !.op = "isZeroed", !.obj = 1, !.before = heap[1],
                            !.zeroed = isZeroed(heap[1])]
    /\ UNCHANGED <<heap, pc, rawKey, genEngine, read, draws>>

NextZ == CallIsZeroed

SpecZ == InitZ /\ [][NextZ]_vars

(***************************************************************************)
(* Properties                                                              *)
(***************************************************************************)
Secret(keypair) == BytesToInt(Seg(keypair, 1))

\* the two states of the KeyPair lifecycle
Zeroed(keypair) == \A j \in 1 .. Len(keypair) : keypair[j] = 0

Valid(keypair) == 0 < Secret(keypair) /\ Secret(keypair) < GroupOrder

SegmentZero(keypair, k) == \A j \in ((k - 1) * SegLen + 1) .. (k * SegLen) : keypair[j] = 0

Constructors == {"DeserializePrivateKey", "DeserializePrivateKeyFromSlice", "GeneratePrivateKey"}

\* the rand.Read of the last completed call
SourceFailed == pc = "idle" /\ read.id > 0 /\ (read.n < SegLen \/ read.err # "nil")

SourceWorked == pc = "idle" /\ read.id > 0 /\ read.n = SegLen /\ read.err = "nil"

\* C1: on a KeyPair whose bytes are all zero, Add (any tweak), SchnorrPublicKey
\* and SchnorrSign (the Randomness Source working, any hash) fail with
\* errZeroedKeyPair and make no Curve Engine call.
C1_ZeroedGating ==
    (/\ ret.op \in {"Add", "SchnorrPublicKey", "SchnorrSign"}
     /\ Zeroed(ret.before)
     /\ ret.op = "SchnorrSign" => SourceWorked)
    => (ret.err = "errZeroedKeyPair" /\ ret.engine = <<>>)

C1_Witness ==
    /\ ret.op = "SchnorrSign"
    /\ Zeroed(ret.before)
    /\ SourceWorked
    /\ ret.err = "errZeroedKeyPair"
    /\ ret.arg # Zeros(SegLen)

\* C2: when the Randomness Source writes fewer bytes than asked, with or without
\* an error, or reports an error, GeneratePrivateKey and SchnorrSign return a
\* non-nil error, no KeyPair and no Signature.
C2_RandomnessExhaustion ==
    (/\ pc = "idle"
     /\ ret.op \in {"GeneratePrivateKey", "SchnorrSign"}
     /\ SourceFailed)
    => (ret.err # "nil" /\ ret.key = 0 /\ ret.out = Nil)

C4_RangeValidation ==
    ret.op = "DeserializePrivateKey"
    => LET s == BytesToInt(ret.arg)
       IN  IF 0 < s /\ s < GroupOrder
           THEN ret.err = "nil" /\ ret.key # 0 /\ Valid(heap[ret.key])
           ELSE ret.err = "errInvalidKey" /\ ret.key = 0

C4_Witness ==
    /\ ret.op = "DeserializePrivateKey"
    /\ BytesToInt(ret.arg) = GroupOrder
    /\ ret.err = "errInvalidKey"

\* C5: DeserializePrivateKeyFromSlice of a slice whose length is not
\* SerializedPrivateKeySize fails with the length error, which is not the
\* invalid-key error, without a Curve Engine call and without a KeyPair; on a
\* slice of the right length it does what DeserializePrivateKey does on it.
C5_LengthRejection ==
    ret.op = "DeserializePrivateKeyFromSlice"
    => IF Len(ret.arg) # SerializedPrivateKeySize
       THEN /\ ret.err = "errLength"
            /\ ret.err # "errInvalidKey"
            /\ ret.engine = <<>>
            /\ ret.key = 0
       ELSE LET d == DeserializePrivateKey(ret.arg)
            IN  /\ ret.err = d.err
                /\ ret.engine = d.engine
                /\ (ret.key = 0) <=> (d.key = Nil)
                /\ ret.key # 0 => heap[ret.key] = d.key

C5_Witness ==
    /\ ret.op = "DeserializePrivateKeyFromSlice"
    /\ Len(ret.arg) = SerializedPrivateKeySize + 1
    /\ ret.arg # Zeros(SerializedPrivateKeySize + 1)
    /\ ret.err = "errLength"

\* C6: SerializePrivateKey of the KeyPair DeserializePrivateKey returned for s
\* is s byte for byte, and DeserializePrivateKey of the serialization of a
\* Valid KeyPair succeeds with a KeyPair that serializes to the same bytes.
C6_RoundTrip ==
    /\ (ret.op = "DeserializePrivateKey" /\ ret.err = "nil")
       => SerializePrivateKey(heap[ret.key]).out = ret.arg
    /\ (ret.op = "SerializePrivateKey" /\ Valid(ret.before))
       => LET d == DeserializePrivateKey(ret.out)
          IN  /\ d.err = "nil"
              /\ d.key # Nil
              /\ Seg(d.key, 1) = Seg(ret.before, 1)
              /\ SerializePrivateKey(d.key).out = ret.out

C6_Witness ==
    /\ ret.op = "SerializePrivateKey"
    /\ Valid(ret.before)
    /\ ret.out = Seg(heap[ret.obj], 1)
    /\ Secret(ret.before) = GroupOrder - 1

\* C7: every SchnorrSign call makes one rand.Read of its own, and the buffer it
\* hands to schnorrsig_sign, when it gets that far, is the completely filled
\* buffer of that read, the newest draw: no draw goes to the engine twice.
C7_FreshAux ==
    [][(pc = "idle" /\ pc' = "idle" /\ ret'.op = "SchnorrSign")
       => /\ draws' = draws + 1
          /\ read'.id = draws'
          /\ Len(ret'.engine) <= 1
          /\ \A k \in 1 .. Len(ret'.engine) :
                /\ ret'.engine[k].fn = "schnorrsig_sign"
                /\ read'.n = SegLen
                /\ read'.err = "nil"
                /\ ret'.engine[k].aux.bytes = read'.buf
                /\ ret'.engine[k].aux.id = draws']_vars

C7_Witness ==
    /\ ret.op = "SchnorrSign"
    /\ ret.err = "nil"
    /\ draws = 2
    /\ Len(ret.engine) = 1
    /\ ret.engine[1].aux.id = 2
    /\ ret.engine[1].aux.bytes = IntToBytes(GroupOrder, SegLen)

\* C8: in GeneratePrivateKey every DeserializePrivateKey attempt is on a newly
\* drawn buffer; a rejected candidate leads to another draw and is not
\* returned; a failure of the Randomness Source ends the call at once; a
\* returned KeyPair is Valid with the last drawn candidate as its secret; and a
\* valid candidate leads to the successful return of the call.
C8_GenerateLoop ==
    /\ [][/\ pc' = "try" => (pc = "read" /\ draws' = draws + 1 /\ read'.id = draws'
                           /\ read'.n = SegLen /\ rawKey' = read'.buf)
          /\ (pc = "try" /\ ~Valid(rawKey \o rawKey \o rawKey))
             => (pc' = "read" /\ heap' = heap /\ ret' = ret /\ draws' = draws)
          /\ (pc = "read" /\ (read'.n # SegLen \/ read'.err # "nil"))
             => (pc' = "idle" /\ ret'.op = "GeneratePrivateKey" /\ ret'.key = 0
                 /\ heap' = heap /\ draws' = draws + 1)]_vars
    /\ []((pc = "idle" /\ read.id > 0 /\ ret.op = "GeneratePrivateKey" /\ ret.key # 0)
          => (/\ Valid(heap[ret.key])
              /\ Seg(heap[ret.key], 1) = rawKey
              /\ rawKey = read.buf
              /\ ret.err = "nil"))
    /\ ((pc = "try" /\ Valid(rawKey \o rawKey \o rawKey))
        ~> (pc = "idle" /\ ret.op = "GeneratePrivateKey" /\ ret.err = "nil" /\ ret.key # 0))

C8_Witness ==
    /\ pc = "idle"
    /\ ret.op = "GeneratePrivateKey"
    /\ ret.err = "nil"
    /\ ret.key # 0
    /\ Len(ret.engine) = 2
    /\ Valid(heap[ret.key])

\* C9 as stated: isZeroed is true exactly when all three segments of the
\* KeyPair are all-zero, and false when only one or two of them are.
C9_AllSegments ==
    ret.op = "isZeroed"
    => (ret.zeroed <=> \A k \in 1 .. 3 : SegmentZero(ret.before, k))

\* C9 as amended: isZeroed is true exactly when at least one of the three
\* segments of the KeyPair is all-zero.
C9_AnySegment ==
    ret.op = "isZeroed"
    => (ret.zeroed <=> \E k \in 1 .. 3 : SegmentZero(ret.before, k))

C9_Witness ==
    /\ ret.op = "isZeroed"
    /\ ret.zeroed
    /\ SegmentZero(ret.before, 2)
    /\ ~SegmentZero(ret.before, 1)
    /\ ~SegmentZero(ret.before, 3)

\* C10: SerializePrivateKey, SchnorrPublicKey and SchnorrSign, failing or not,
\* leave every byte of their KeyPair as it was, and what SchnorrPublicKey returns
\* is the (pubkey, parity) the Curve Engine gives for those bytes, so that
\* repeated calls on an unchanged KeyPair return the same pair.
C10_Frame ==
    /\ ret.op \in {"SerializePrivateKey", "SchnorrPublicKey", "SchnorrSign"}
       => heap[ret.obj] = ret.before
    /\ (ret.op = "SchnorrPublicKey" /\ ret.err = "nil")
       => LET e == secp256k1_keypair_xonly_pub(ret.before)
          IN  /\ e.ret = 1
              /\ ret.out = e.pubkey
              /\ ret.odd = (e.parity = 1)

C10_Witness ==
    /\ ret.op = "SchnorrPublicKey"
    /\ ret.err = "nil"
    /\ ret.odd
    /\ draws > 0
    /\ heap[ret.obj] = ret.before

====
